---- MODULE Spec2Model ----
(***************************************************************************)
(* A model of crew_analyser.py: a top-level script that discovers the      *)
(* Python files of a workspace, declares three agents and three chained    *)
(* tasks, runs them as a sequential crew and writes the result to up to    *)
(* four files.                                                             *)
(*                                                                         *)
(* The script's own statements (file discovery, the declarations, the      *)
(* result writes) are modelled from the source.  Crew.kickoff() is a call  *)
(* into the crewai library; its steps (StartTask, FinishTask, FailTask,    *)
(* AssembleResult) are modelled from the description of the pipeline       *)
(* executor in the specification, parameterised by the task list, the      *)
(* contexts and the process the script declares.                           *)
(***************************************************************************)
EXTENDS Naturals, Integers, Sequences, FiniteSets, TLC

VARIABLES
    rootKind,       \* what workspace_folder is on disk: "missing", "file", "dir"
    tree,           \* the files found below workspace_folder (ids of FileIds)
    pc,             \* the script's position
    python_files,   \* the script's global python_files
    taskDefs,       \* Task objects constructed so far: name -> [description, agent, context]
    crew,           \* code_analysis_crew: None or Some([agents, tasks, process])
    status,         \* per task: "pending", "running", "done", "failed"
    taskOutput,     \* per task: None or Some(TaskResult)
    request,        \* per task: None or Some(the request assembled when it started)
    invoked,        \* the tasks in the order their agents were invoked
    usage,          \* token usage accumulated over the agent invocations (one unit each)
    result,         \* the script's global result: None or Some(PipelineResult)
    files,          \* per artifact: None or Some(the chunks written to it by this run)
    writeLog,       \* the artifacts opened for writing, in order
    error           \* the uncaught exception, if any: [kind, at], kind "none",
                    \* "agent" (kickoff raised in task at) or "write" (the block of
                    \* artifact at raised)

vars == <<rootKind, tree, pc, python_files, taskDefs, crew, status, taskOutput,
          request, invoked, usage, result, files, writeLog, error>>

----------------------------------------------------------------------------
(* Bounds *)

\* Files below the workspace root: ids 1..MaxFiles.
MaxFiles == 2
\* Distinct raw texts an agent may return.
NumRaw == 2

----------------------------------------------------------------------------
(* Optional values: Python's None and a present value *)

None == <<>>
Some(x) == <<x>>
Get(o) == o[1]

NoError == [kind |-> "none", at |-> "-"]
Raised(kind, at) == [kind |-> kind, at |-> at]

----------------------------------------------------------------------------
(* File discovery: glob.glob(os.path.join(workspace_folder, "**/*.py"),    *)
(* recursive=True)                                                         *)

FileIds == 1..MaxFiles

\* The extension of file i: odd ids are .py files, even ids are not.
Extension(i) == IF i % 2 = 1 THEN "py" ELSE "txt"

RootKinds == {"missing", "file", "dir"}

\* The pattern "**/*.py" keeps the paths whose name ends in .py.
Glob_anyExtension(entries) == entries
Glob(entries) == {f \in entries : Extension(f) = "py"}

----------------------------------------------------------------------------
(* Declarations of the script *)

TaskNames == {"read_code_task", "analyze_structure_task", "write_report_task"}

agents == <<"code_reader_agent", "structure_analyzer_agent", "report_writer_agent">>

\* Task(... agent=...)
agent(t) ==
    CASE t = "read_code_task" -> "code_reader_agent"
      [] t = "analyze_structure_task" -> "structure_analyzer_agent"
      [] t = "write_report_task" -> "report_writer_agent"

\* Task(... context=[...]); read_code_task has none.
context_reportReadsCode(t) ==
    CASE t = "read_code_task" -> <<>>
      [] t = "analyze_structure_task" -> <<"read_code_task">>
      [] t = "write_report_task" -> <<"read_code_task">>
context(t) ==
    CASE t = "read_code_task" -> <<>>
      [] t = "analyze_structure_task" -> <<"read_code_task">>
      [] t = "write_report_task" -> <<"analyze_structure_task">>

\* Task(description=...): only read_code_task's f-string embeds python_files.
description(t, pyfiles) ==
    IF t = "read_code_task"
    THEN [text |-> "parse", python_files |-> pyfiles]
    ELSE [text |-> IF t = "analyze_structure_task" THEN "analyze" ELSE "report",
          python_files |-> {}]

\* Crew(tasks=[...])
tasks_swapped == <<"analyze_structure_task", "read_code_task", "write_report_task">>
tasks_missingAnalysis == <<"read_code_task", "write_report_task">>
tasks == <<"read_code_task", "analyze_structure_task", "write_report_task">>

\* Crew(process=Process.sequential)
process == "sequential"

----------------------------------------------------------------------------
(* Values the agents may return *)

RawName == <<"A", "B", "C", "D">>
RawTexts == {RawName[i] : i \in 1..NumRaw}

\* json_dict: absent, an empty mapping, or a mapping with one member.
Mappings == {{}, {<<"k", "v">>}}
OptMappings == {None} \cup {Some(m) : m \in Mappings}

\* pydantic: absent or a typed object.
OptObjects == {None, Some("model")}

TaskResults == [raw : RawTexts, json_dict : OptMappings, pydantic : OptObjects]

\* Python truth value of result.json_dict: None and the empty dict are false.
TruthyMapping(o) == o # None /\ Get(o) # {}

\* Python truth value of result.pydantic: None is false, a model object is true.
TruthyObject(o) == o # None

----------------------------------------------------------------------------
(* Initial state: the interpreter is about to run line 23 *)

Init ==
    /\ rootKind \in RootKinds
    /\ tree \in SUBSET FileIds
    /\ (rootKind # "dir" => tree = {})
    /\ pc = "discover"
    /\ python_files = {}
    /\ taskDefs = [t \in {} |-> None]
    /\ crew = None
    /\ status = [t \in TaskNames |-> "pending"]
    /\ taskOutput = [t \in TaskNames |-> None]
    /\ request = [t \in TaskNames |-> None]
    /\ invoked = <<>>
    /\ usage = 0
    /\ result = None
    /\ files = [a \in {"md", "json", "pydantic", "audit"} |-> None]
    /\ writeLog = <<>>
    /\ error = NoError

----------------------------------------------------------------------------
(* The script, top to bottom *)

\* python_files = glob.glob(...): never raises; an absent root or a root that
\* is not a directory has nothing below it.
Discover ==
    /\ pc = "discover"
    /\ python_files' = Glob(tree)
    /\ pc' = "agents"
    /\ UNCHANGED <<rootKind, tree, taskDefs, crew, status, taskOutput, request,
                   invoked, usage, result, files, writeLog, error>>

\* file_read_tool and the three Agent(...) objects.
DefineAgents ==
    /\ pc = "agents"
    /\ pc' = "tasks"
    /\ UNCHANGED <<rootKind, tree, python_files, taskDefs, crew, status, taskOutput,
                   request, invoked, usage, result, files, writeLog, error>>

\* The three Task(...) objects, each built from the ones before it.
DefineTasks ==
    /\ pc = "tasks"
    /\ taskDefs' = [t \in TaskNames |->
                      [description |-> description(t, python_files),
                       agent |-> agent(t),
                       context |-> context(t)]]
    /\ pc' = "crew"
    /\ UNCHANGED <<rootKind, tree, python_files, crew, status, taskOutput, request,
                   invoked, usage, result, files, writeLog, error>>

\* code_analysis_crew = Crew(agents=..., tasks=..., process=...)
AssembleCrew ==
    /\ pc = "crew"
    /\ crew' = Some([agents |-> agents, tasks |-> tasks, process |-> process])
    /\ pc' = "kickoff"
    /\ UNCHANGED <<rootKind, tree, python_files, taskDefs, status, taskOutput, request,
                   invoked, usage, result, files, writeLog, error>>

----------------------------------------------------------------------------
(* result = code_analysis_crew.kickoff(): the sequential executor *)

CrewTasks == Get(crew).tasks

\* The request assembled for task t: its description, its agent, and the
\* recorded result of every task of its context.
AssembleRequest(t) ==
    [description |-> taskDefs[t].description,
     agent |-> taskDefs[t].agent,
     context |-> [k \in 1..Len(taskDefs[t].context) |->
                     taskOutput[taskDefs[t].context[k]]]]

\* The agent of the i-th task is invoked once every task before it is done.
StartTask(i) ==
    /\ pc = "kickoff"
    /\ i \in 1..Len(CrewTasks)
    /\ status[CrewTasks[i]] = "pending"
    /\ \A j \in 1..(i - 1) : status[CrewTasks[j]] = "done"
    /\ request' = [request EXCEPT ![CrewTasks[i]] = Some(AssembleRequest(CrewTasks[i]))]
    /\ status' = [status EXCEPT ![CrewTasks[i]] = "running"]
    /\ invoked' = Append(invoked, CrewTasks[i])
    /\ UNCHANGED <<rootKind, tree, pc, python_files, taskDefs, crew, taskOutput,
                   usage, result, files, writeLog, error>>

\* The agent returns: the TaskResult is recorded against the task.
FinishTask(t) ==
    /\ pc = "kickoff"
    /\ status[t] = "running"
    /\ \E r \in TaskResults :
          taskOutput' = [taskOutput EXCEPT ![t] = Some(r)]
    /\ status' = [status EXCEPT ![t] = "done"]
    /\ usage' = usage + 1
    /\ UNCHANGED <<rootKind, tree, pc, python_files, taskDefs, crew, request,
                   invoked, result, files, writeLog, error>>

\* What the script does once kickoff() has returned or raised: there is no
\* try/except, so an exception ends the script before any write.
AfterKickoff_swallowed(returned) == "md"
AfterKickoff(returned) == IF returned THEN "md" ELSE "aborted"

\* The agent invocation fails: kickoff() raises.
FailTask(t) ==
    /\ pc = "kickoff"
    /\ status[t] = "running"
    /\ status' = [status EXCEPT ![t] = "failed"]
    /\ error' = Raised("agent", t)
    /\ pc' = AfterKickoff(FALSE)
    /\ UNCHANGED <<rootKind, tree, python_files, taskDefs, crew, taskOutput, request,
                   invoked, usage, result, files, writeLog>>

\* After the last task: the PipelineResult is built from the last task's
\* TaskResult, the list of all TaskResults and the token usage.
AssembleResult ==
    /\ pc = "kickoff"
    /\ \A i \in 1..Len(CrewTasks) : status[CrewTasks[i]] = "done"
    /\ LET last == Get(taskOutput[CrewTasks[Len(CrewTasks)]])
       IN result' = Some([raw |-> last.raw,
                          json_dict |-> last.json_dict,
                          pydantic |-> last.pydantic,
                          tasks_output |-> [i \in 1..Len(CrewTasks) |->
                                               Get(taskOutput[CrewTasks[i]])],
                          token_usage |-> usage])
    /\ pc' = AfterKickoff(TRUE)
    /\ UNCHANGED <<rootKind, tree, python_files, taskDefs, crew, status, taskOutput,
                   request, invoked, usage, files, writeLog, error>>

----------------------------------------------------------------------------
(* Writing the result: four with-open blocks at the top level, no try/except *)

Artifacts == {"md", "json", "pydantic", "audit"}

\* The statement that follows each block.
NextWrite_auditFirst(p) ==
    CASE p = "md" -> "audit"
      [] p = "audit" -> "json"
      [] p = "json" -> "pydantic"
      [] p = "pydantic" -> "done"
NextWrite(p) ==
    CASE p = "md" -> "json"
      [] p = "json" -> "pydantic"
      [] p = "pydantic" -> "audit"
      [] p = "audit" -> "done"

\* f.write('# Code Analysis Report\n\n'); f.write(result.raw)
MarkdownChunks_firstTask(r) == <<"# Code Analysis Report\n\n", r.tasks_output[1].raw>>
MarkdownChunks(r) == <<"# Code Analysis Report\n\n", r.raw>>

\* json.dump(result.json_dict, f, indent=2): the text of the mapping's members.
JsonDump(m) == [indent |-> 2, members |-> {[key |-> kv[1], value |-> kv[2]] : kv \in m}]
JsonChunks(r) == <<JsonDump(Get(r.json_dict))>>

\* f.write(str(result.pydantic))
Str(x) == [str |-> x]
PydanticChunks(r) == <<Str(Get(r.pydantic))>>

\* f.write(f"Tasks Output:\n{result.tasks_output}\n"); f.write(f"\nToken Usage:\n{result.token_usage}")
AuditChunks(r) ==
    <<[label |-> "Tasks Output:", body |-> Str(r.tasks_output)],
      [label |-> "Token Usage:", body |-> Str(r.token_usage)]>>

\* The audit block is not under any if.
AuditCondition_underPydanticIf(r) == TruthyObject(r.pydantic)
AuditCondition(r) == TRUE

\* One with-open block writing chunks to artifact a.  open() may raise (nothing
\* is created), a write may raise (the file keeps what was written before
\* it), or all writes succeed.  An exception ends the script.
WriteBlock(a, chunks) ==
    \E outcome \in {"ok", "open_fail", "write_fail"} :
        CASE outcome = "ok" ->
               /\ files' = [files EXCEPT ![a] = Some(chunks)]
               /\ writeLog' = Append(writeLog, a)
               /\ pc' = NextWrite(a)
               /\ error' = error
          [] outcome = "open_fail" ->
               /\ files' = files
               /\ writeLog' = writeLog
               /\ pc' = "aborted"
               /\ error' = Raised("write", a)
          [] outcome = "write_fail" ->
               /\ \E k \in 0..(Len(chunks) - 1) :
                     files' = [files EXCEPT ![a] = Some(SubSeq(chunks, 1, k))]
               /\ writeLog' = Append(writeLog, a)
               /\ pc' = "aborted"
               /\ error' = Raised("write", a)

SkipBlock(a) ==
    /\ pc' = NextWrite(a)
    /\ UNCHANGED <<files, writeLog, error>>

WriteMarkdown ==
    /\ pc = "md"
    /\ WriteBlock("md", MarkdownChunks(Get(result)))
    /\ UNCHANGED <<rootKind, tree, python_files, taskDefs, crew, status, taskOutput,
                   request, invoked, usage, result>>

\* if result.json_dict: ...
WriteJson ==
    /\ pc = "json"
    /\ TruthyMapping(Get(result).json_dict)
    /\ WriteBlock("json", JsonChunks(Get(result)))
    /\ UNCHANGED <<rootKind, tree, python_files, taskDefs, crew, status, taskOutput,
                   request, invoked, usage, result>>

SkipJson ==
    /\ pc = "json"
    /\ ~TruthyMapping(Get(result).json_dict)
    /\ SkipBlock("json")
    /\ UNCHANGED <<rootKind, tree, python_files, taskDefs, crew, status, taskOutput,
                   request, invoked, usage, result>>

\* if result.pydantic: ...
WritePydantic ==
    /\ pc = "pydantic"
    /\ TruthyObject(Get(result).pydantic)
    /\ WriteBlock("pydantic", PydanticChunks(Get(result)))
    /\ UNCHANGED <<rootKind, tree, python_files, taskDefs, crew, status, taskOutput,
                   request, invoked, usage, result>>

SkipPydantic ==
    /\ pc = "pydantic"
    /\ ~TruthyObject(Get(result).pydantic)
    /\ SkipBlock("pydantic")
    /\ UNCHANGED <<rootKind, tree, python_files, taskDefs, crew, status, taskOutput,
                   request, invoked, usage, result>>

\* timestamp = ...; with open(f'task_output_{timestamp}.txt', 'w') ...
WriteAudit ==
    /\ pc = "audit"
    /\ IF AuditCondition(Get(result))
       THEN WriteBlock("audit", AuditChunks(Get(result)))
       ELSE SkipBlock("audit")
    /\ UNCHANGED <<rootKind, tree, python_files, taskDefs, crew, status, taskOutput,
                   request, invoked, usage, result>>

----------------------------------------------------------------------------

Next ==
    \/ Discover
    \/ DefineAgents
    \/ DefineTasks
    \/ AssembleCrew
    \/ \E i \in 1..Len(tasks) : StartTask(i)
    \/ \E t \in TaskNames : FinishTask(t)
    \/ \E t \in TaskNames : FailTask(t)
    \/ AssembleResult
    \/ WriteMarkdown
    \/ WriteJson
    \/ SkipJson
    \/ WritePydantic
    \/ SkipPydantic
    \/ WriteAudit

Spec == Init /\ [][Next]_vars

----------------------------------------------------------------------------
(* Properties *)

\* The order and the contexts as the properties name them.
ClaimedOrder == <<"read_code_task", "analyze_structure_task", "write_report_task">>
ClaimedContext(t) ==
    CASE t = "read_code_task" -> <<>>
      [] t = "analyze_structure_task" -> <<"read_code_task">>
      [] t = "write_report_task" -> <<"analyze_structure_task">>

IsPrefix(s, t) == Len(s) <= Len(t) /\ s = SubSeq(t, 1, Len(s))
Range(s) == {s[i] : i \in 1..Len(s)}
Recorded(t) == status[t] = "done" /\ taskOutput[t] # None

\* The complete content of each artifact for the result r.
Expected(a, r) ==
    CASE a = "md" -> MarkdownChunks(r)
      [] a = "json" -> JsonChunks(r)
      [] a = "pydantic" -> PydanticChunks(r)
      [] a = "audit" -> AuditChunks(r)
Complete(a) == result # None /\ files[a] = Some(Expected(a, Get(result)))

\* C1: the agents are invoked in the order read_code_task,
\* analyze_structure_task, write_report_task; a task is invoked only when the
\* TaskResult of every task before it is recorded; at most one task is in
\* execution at any time.
C1_SequentialOrder ==
    /\ IsPrefix(invoked, ClaimedOrder)
    /\ Cardinality({t \in TaskNames : status[t] = "running"}) <= 1
    /\ \A i \in 1..Len(invoked) : \A j \in 1..(i - 1) : Recorded(invoked[j])
    /\ \A t \in TaskNames : status[t] # "pending" <=> t \in Range(invoked)

C1_Witness ==
    /\ invoked = ClaimedOrder
    /\ status["write_report_task"] = "running"
    /\ Recorded("read_code_task") /\ Recorded("analyze_structure_task")

\* C2: once a task has started, every task of its context (read_code_task for
\* analyze_structure_task, analyze_structure_task for write_report_task) is
\* completed, and the request assembled for it holds exactly the recorded
\* TaskResult of each of them, in every later state too.
C2_ContextPropagation ==
    \A t \in TaskNames :
        status[t] # "pending" =>
            /\ request[t] # None
            /\ \A k \in 1..Len(ClaimedContext(t)) : Recorded(ClaimedContext(t)[k])
            /\ Get(request[t]).context =
                   [k \in 1..Len(ClaimedContext(t)) |-> taskOutput[ClaimedContext(t)[k]]]

C2_Witness ==
    /\ status["write_report_task"] = "done"
    /\ Get(request["write_report_task"]).context = <<taskOutput["analyze_structure_task"]>>
    /\ taskOutput["analyze_structure_task"] # taskOutput["read_code_task"]

\* C4: whenever a PipelineResult exists, its raw is the raw of
\* write_report_task's TaskResult, and code_analysis_report.md holds the
\* header followed by that text (a prefix of it if the write raised).
C4_RawIsLastTask ==
    result # None =>
        LET lastRaw == Get(taskOutput["write_report_task"]).raw
            report == <<"# Code Analysis Report\n\n", lastRaw>>
        IN /\ Recorded("write_report_task")
           /\ Get(result).raw = lastRaw
           /\ files["md"] # None => IsPrefix(Get(files["md"]), report)
           /\ pc \in {"json", "pydantic", "audit", "done"} => files["md"] = Some(report)

C4_Witness ==
    /\ pc = "done"
    /\ files["md"] = Some(<<"# Code Analysis Report\n\n", "B">>)
    /\ Get(taskOutput["read_code_task"]).raw = "A"
    /\ Get(taskOutput["analyze_structure_task"]).raw = "A"
    /\ Get(taskOutput["write_report_task"]).raw = "B"

\* C5: once an agent invocation has failed, the script is aborted, the failed
\* task is the last one invoked and every task after it is still pending, no
\* PipelineResult exists and none of the four artifacts is written.
C5_AgentFailureAborts ==
    (\E t \in TaskNames : status[t] = "failed") =>
        /\ pc = "aborted"
        /\ error.kind = "agent"
        /\ invoked # <<>> /\ status[invoked[Len(invoked)]] = "failed"
        /\ error.at = invoked[Len(invoked)]
        /\ \A t \in TaskNames \ Range(invoked) : status[t] = "pending"
        /\ \A t \in TaskNames : status[t] # "running"
        /\ result = None
        /\ \A a \in Artifacts : files[a] = None
        /\ writeLog = <<>>

C5_Witness ==
    /\ status["analyze_structure_task"] = "failed"
    /\ Recorded("read_code_task")
    /\ status["write_report_task"] = "pending"
    /\ pc = "aborted"

JsonLoad(text) == {<<e.key, e.value>> : e \in text.members}

\* C7 as stated: once the script has completed, code_analysis_report.json is
\* written exactly when json_dict is present (an empty mapping included),
\* and re-parsing it gives that mapping.
C7_JsonWrittenIffPresent ==
    pc = "done" =>
        /\ files["json"] # None <=> Get(result).json_dict # None
        /\ files["json"] # None =>
              JsonLoad(Get(files["json"])[1]) = Get(Get(result).json_dict)

\* C8: a TaskResult, once set, never changes; a PipelineResult exists only
\* when all three tasks have their TaskResult, and its tasks_output is those
\* three results in the order read, analyze, write.
C8_WriteOnceThenAssemble ==
    /\ [][\A t \in TaskNames : taskOutput[t] # None => taskOutput'[t] = taskOutput[t]]_vars
    /\ [](result # None =>
            /\ \A t \in TaskNames : Recorded(t)
            /\ Get(result).tasks_output =
                   [i \in 1..3 |-> Get(taskOutput[ClaimedOrder[i]])])

C8_Witness ==
    /\ result # None
    /\ Get(result).tasks_output[1].raw = "A"
    /\ Get(result).tasks_output[2].raw = "B"
    /\ Get(result).tasks_output[2].pydantic # None
    /\ Get(result).tasks_output[3].raw = "A"

\* C9: the artifacts are opened in the order markdown, JSON, pydantic text,
\* audit; a write that raises aborts the script; every artifact written
\* before it is complete and no written artifact is ever changed or removed.
Rank(a) ==
    CASE a = "md" -> 1 [] a = "json" -> 2 [] a = "pydantic" -> 3 [] a = "audit" -> 4

C9_OrderedNoRollback ==
    /\ [](\A i \in 1..Len(writeLog) : \A j \in 1..(i - 1) :
              Rank(writeLog[j]) < Rank(writeLog[i]))
    /\ [](error.kind = "write" =>
              /\ pc = "aborted"
              /\ \A a \in Range(writeLog) : Rank(a) < Rank(error.at) => Complete(a)
              /\ \A a \in Artifacts : Rank(a) > Rank(error.at) => files[a] = None)
    /\ [](\A a \in Artifacts : files[a] # None <=> a \in Range(writeLog))
    /\ [][\A a \in Artifacts : files[a] # None => files'[a] = files[a]]_vars

C9_Witness ==
    /\ error = Raised("write", "audit")
    /\ pc = "aborted"
    /\ Get(result).json_dict # None /\ Get(result).pydantic # None
    /\ Complete("md") /\ Complete("json") /\ Complete("pydantic")
    /\ files["audit"] = Some(<<AuditChunks(Get(result))[1]>>)

\* C10: when the root is absent, is not a directory or holds no .py file,
\* python_files is empty and nothing is raised: the script aborts only on an
\* agent or a write failure, the three tasks are constructed with the empty
\* set in read_code_task's description, and a completed run has invoked the
\* three agents in order and written the report and the audit artifact.
NoMatchingFile == rootKind # "dir" \/ \A f \in tree : Extension(f) # "py"

C10_EmptyDiscoveryProceeds ==
    (NoMatchingFile /\ pc # "discover") =>
        /\ python_files = {}
        /\ pc = "aborted" => (crew # None /\ invoked # <<>> /\ error.kind \in {"agent", "write"})
        /\ pc \notin {"agents", "tasks"} =>
              /\ DOMAIN taskDefs = TaskNames
              /\ taskDefs["read_code_task"].description.python_files = {}
        /\ pc = "done" =>
              /\ invoked = ClaimedOrder
              /\ Complete("md") /\ Complete("audit")

C10_Witness ==
    /\ rootKind = "missing"
    /\ python_files = {}
    /\ pc = "done"
    /\ invoked = ClaimedOrder
    /\ Complete("md") /\ Complete("audit")

====
